---- MODULE Spec2Model ----
(***************************************************************************)
(* A model of seen's Scene (scene.ts): the per-frame rendering pipeline    *)
(* Scene.render(), the render-model cache behind Scene._renderSurface()    *)
(* and Scene.flushCache(), together with the host operations that change   *)
(* the scene between frames; of the typed publish/subscribe utility Events *)
(* (events.ts); and of the Model the model tests add to and remove from.   *)
(* The three are separate objects: each specification below runs the       *)
(* operations of one of them and leaves the others as constructed.         *)
(*                                                                         *)
(* Numbers.  Coordinates are fixed-point numbers counted in halves: the    *)
(* integer c stands for c/2, so a coordinate is a whole number iff c is    *)
(* even.  A barycenter depth is kept as the sum of the two point depths of *)
(* a surface, i.e. counted in quarters; the order of depths is the order   *)
(* of these sums.  All coordinates are finite numbers.                     *)
(*                                                                         *)
(* Objects.  A RenderModel is a heap record named by a positive integer    *)
(* (its identity); 0 is null/undefined.  Identities are handed out in      *)
(* increasing order by nextId and never reused.                            *)
(***************************************************************************)
EXTENDS Integers, Sequences, FiniteSets, TLC

\* ------------------------------------------------------------- bounds
\* The most children the host puts under the root model.
MaxChildren == 2
\* The most RenderModel objects constructed in one behaviour.
MaxAlloc == 5
\* The most host mutations of the scene in one behaviour.
MaxOps == 3

\* ------------------------------------------------------------ matrices
\* A matrix is the affine map p |-> s * p + (tx, tz); the scale s also acts
\* on directions (normals).
Identity == [s |-> 1, tx |-> 0, tz |-> 0]

\* a.multiply(b): a is applied first, then b.
multiply(a, b) ==
    [s |-> a.s * b.s, tx |-> b.s * a.tx + b.tx, tz |-> b.s * a.tz + b.tz]

\* p.transform(m)
transform(p, m) == [x |-> m.s * p.x + m.tx, z |-> m.s * p.z + m.tz]

\* Math.round on a coordinate counted in halves: floor(c/2 + 1/2).
MathRound(c) == 2 * ((c + 1) \div 2)

\* Point.round(): every coordinate of the point is rounded.
round(p) == [x |-> MathRound(p.x), z |-> MathRound(p.z)]

\* ------------------------------------------------ shapes and surfaces
Shapes == {1, 2}
Surfaces == {1, 2, 3}
Lights == {1}
Materials == {1}
Shaders == {"phong", "flat"}

\* shape.surfaces, in iteration order.
ShapeSurfaces(shape) == IF shape = 1 THEN <<1, 2>> ELSE <<3>>

\* surface.points in surface-local coordinates (halves).
SurfacePoints(surface) ==
    CASE surface = 1 -> <<[x |-> 0, z |-> 0], [x |-> 2, z |-> 0]>>
      [] surface = 2 -> <<[x |-> -2, z |-> 0], [x |-> 0, z |-> 0]>>
      [] OTHER       -> <<[x |-> 0, z |-> 2], [x |-> 1, z |-> 2]>>

\* The z component of the surface-local normal: every surface faces the
\* viewer (negative z) until a transform turns it round.
SurfaceNormalZ(surface) == -1

\* The transforms the host places shapes under: in place, turned round
\* (backfacing), and pushed out of the clip volume.
Turned == [s |-> -1, tx |-> 0, tz |-> 0]
Away == [s |-> 1, tx |-> 0, tz |-> 8]
Transforms == {Identity, Turned, Away}

\* The camera positions the host moves the camera to: the second shifts the
\* view by half a unit.
CameraMoves == {Identity, [s |-> 1, tx |-> 1, tz |-> 0]}

\* ------------------------------------------------------- RenderModel
\* The canonical clip volume spans -1 .. 1 (in halves: -2 .. 2).
InClip(p) == p.x >= -2 /\ p.x <= 2 /\ p.z >= -2 /\ p.z <= 2

\* The element of a one-element set.  Only({e(x) : x \in {v}}) is e of the
\* value of v, with v evaluated once.
Only(S) == CHOOSE r \in S : TRUE

\* RenderModel._update(): transformed and projected geometry, barycenter and
\* frustum flag from the surface and the three matrices.
Geometry(surface, tr, projection, vp) ==
    LET world(p) == transform(p, tr)
        cam(p) == transform(world(p), projection)
        screen(p) == transform(cam(p), vp)
        pts == SurfacePoints(surface)
        wpts == [i \in 1..Len(pts) |-> world(pts[i])]
        cpts == [i \in 1..Len(pts) |-> cam(pts[i])]
        spts == [i \in 1..Len(pts) |-> screen(pts[i])]
        wn == tr.s * SurfaceNormalZ(surface)
    IN  [transformed |-> [points |-> wpts, normal |-> wn],
         projected |-> [points |-> spts,
                        normal |-> vp.s * projection.s * wn,
                        barycenter |-> spts[1].z + spts[2].z],
         inFrustrum |-> \E i \in 1..Len(cpts) : InClip(cpts[i])]

\* new RenderModel(surface, transform, projection, viewport)
NewRenderModel(surface, tr, projection, vp) ==
    LET g == Geometry(surface, tr, projection, vp)
    IN  [surface |-> surface, transform |-> tr, projection |-> projection,
         viewport |-> vp, transformed |-> g.transformed,
         projected |-> g.projected, inFrustrum |-> g.inFrustrum,
         fill |-> <<>>, stroke |-> <<>>]

\* renderModel.update(transform, projection, viewport): the matrices are
\* replaced and the geometry recomputed in place; fill and stroke stay.
UpdateRenderModel(rm, tr, projection, vp) ==
    LET g == Geometry(rm.surface, tr, projection, vp)
    IN  [rm EXCEPT !.transform = tr, !.projection = projection,
                   !.viewport = vp, !.transformed = g.transformed,
                   !.projected = g.projected, !.inFrustrum = g.inFrustrum]

\* material.render(lights, shader, transformed): an opaque shading result,
\* determined by its inputs.  <<>> is undefined (no result).
MaterialRender(material, lights, sh, transformed) ==
    <<[material |-> material, lights |-> lights, shader |-> sh,
       transformed |-> transformed]>>

\* -------------------------------------------------------------- state
VARIABLES
    model,             \* the root Model: children (shape under a transform) and lights
    surfaces,          \* per surface: cullBackfaces, fillMaterial, strokeMaterial (0: null)
    camera,            \* camera.m and camera.projection
    viewport,          \* viewport.prescale and viewport.postscale
    shader,            \* scene.shader
    cullBackfaces,     \* scene.cullBackfaces
    fractionalPoints,  \* scene.fractionalPoints
    cache,             \* scene.cache
    _renderModelCache, \* surface id -> RenderModel identity (0: no entry)
    heap,              \* RenderModel identity -> the object's fields
    nextId,            \* the identity the next new RenderModel gets
    out,               \* the list the last render() returned
    visits,            \* the surface visits of the last render(), in walk order
    last,              \* the operation that ran last ("rerender": a render()
                       \* directly after a render())
    retired,           \* the identities flushCache() has dropped from the cache
    ops                \* host mutations so far

sceneVars == <<model, surfaces, camera, viewport, shader, cullBackfaces,
               fractionalPoints, cache, _renderModelCache, heap, nextId, out,
               visits, last, retired, ops>>

config == <<model, surfaces, camera, viewport, shader, cullBackfaces,
            fractionalPoints, cache>>

\* ------------------------------------------------------ scene graph walk
RECURSIVE Flatten(_, _)
\* Model.eachRenderable: the shape visitor's calls, in walk order; every
\* light of the model is in scope of every shape.
Flatten(children, lights) ==
    IF children = <<>> THEN <<>>
    ELSE <<[shape |-> Head(children).shape, lights |-> lights,
            transform |-> Head(children).transform]>>
         \o Flatten(Tail(children), lights)

\* The light visitor: new LightRenderModel(light, transform) per light.
LightRenderModels(lights) ==
    [i \in 1..Len(lights) |-> [light |-> lights[i], transform |-> Identity]]

eachRenderable(m) == Flatten(m.children, LightRenderModels(m.lights))

\* --------------------------------------------------------------- render
\* The projection with viewport.prescale applied before camera.m.
ProjectionPrescaleFirst(cam, vp) ==
    multiply(multiply(vp.prescale, cam.m), cam.projection)

\* The frame's projection matrix: camera.m x prescale x camera.projection,
\* composed on a copy of camera.m.
Projection(cam, vp) == multiply(multiply(cam.m, vp.prescale), cam.projection)

\* The record allocated for a surface visit: a new identity, a new object.
Allocate(st, surface, tr, projection, vp) ==
    [st EXCEPT !.heap = (st.nextId :> NewRenderModel(surface, tr, projection, vp)) @@ @,
               !.nextId = @ + 1, !.rm = st.nextId]

\* _renderSurface that consults the cache whatever scene.cache says.
RenderSurfaceAlwaysCached(st0, surface, tr, projection, vp) ==
    Only({
        IF st.cache[surface] = 0
        THEN [Allocate(st, surface, tr, projection, vp) EXCEPT !.cache[surface] = st.nextId]
        ELSE [st EXCEPT !.heap[st.cache[surface]] = UpdateRenderModel(@, tr, projection, vp),
                        !.rm = st.cache[surface]]
      : st \in {st0}})

\* _renderSurface that replaces the cached record instead of updating it.
RenderSurfaceReplacing(st0, surface, tr, projection, vp) ==
    Only({
        IF ~cache
        THEN Allocate(st, surface, tr, projection, vp)
        ELSE [Allocate(st, surface, tr, projection, vp) EXCEPT !.cache[surface] = st.nextId]
      : st \in {st0}})

\* _renderSurface that keeps one record per surface and transform: a cached
\* record made for another transform is replaced by a new one.
RenderSurfacePerTransform(st0, surface, tr, projection, vp) ==
    Only({
        IF ~cache
        THEN Allocate(st, surface, tr, projection, vp)
        ELSE IF st.cache[surface] = 0 \/ st.heap[st.cache[surface]].transform # tr
        THEN [Allocate(st, surface, tr, projection, vp) EXCEPT
                 !.cache[surface] = st.nextId]
        ELSE [st EXCEPT !.heap[st.cache[surface]] =
                            UpdateRenderModel(@, tr, projection, vp),
                        !.rm = st.cache[surface]]
      : st \in {st0}})

\* _renderSurface that returns the cached record as it is, without update().
RenderSurfaceStale(st0, surface, tr, projection, vp) ==
    Only({
        IF ~cache
        THEN Allocate(st, surface, tr, projection, vp)
        ELSE IF st.cache[surface] = 0
        THEN [Allocate(st, surface, tr, projection, vp) EXCEPT
                 !.cache[surface] = st.nextId]
        ELSE [st EXCEPT !.rm = st.cache[surface]]
      : st \in {st0}})

\* Scene._renderSurface on the frame state st (cache, heap, nextId, ...):
\* the frame state afterwards, with the identity rm of the record returned.
_renderSurface(st0, surface, tr, projection, vp) ==
    Only({
        IF ~cache
        THEN Allocate(st, surface, tr, projection, vp)
        ELSE IF st.cache[surface] = 0
        THEN [Allocate(st, surface, tr, projection, vp) EXCEPT
                 !.cache[surface] = st.nextId]
        ELSE [st EXCEPT !.heap[st.cache[surface]] =
                            UpdateRenderModel(@, tr, projection, vp),
                        !.rm = st.cache[surface]]
      : st \in {st0}})

\* The culling test without the surface's own flag.
VisibleSceneFlagOnly(sceneCull, surfaceCull, normalZ, inFrustrum) ==
    (~sceneCull \/ normalZ < 0) /\ inFrustrum

\* The culling test of render(): the record is kept iff this holds.
Visible(sceneCull, surfaceCull, normalZ, inFrustrum) ==
    (~sceneCull \/ ~surfaceCull \/ normalZ < 0) /\ inFrustrum

\* Shading that assigns a result only where there is a material.
ShadeKeepingStale(rm, surface, lights) ==
    [rm EXCEPT
        !.fill = IF surfaces[surface].fillMaterial # 0
                 THEN MaterialRender(surfaces[surface].fillMaterial, lights,
                                     shader, rm.transformed)
                 ELSE @,
        !.stroke = IF surfaces[surface].strokeMaterial # 0
                   THEN MaterialRender(surfaces[surface].strokeMaterial, lights,
                                       shader, rm.transformed)
                   ELSE @]

\* Fill and stroke of a kept record, from the surface's materials.
Shade(rm, surface, lights) ==
    [rm EXCEPT
        !.fill = IF surfaces[surface].fillMaterial # 0
                 THEN MaterialRender(surfaces[surface].fillMaterial, lights,
                                     shader, rm.transformed)
                 ELSE <<>>,
        !.stroke = IF surfaces[surface].strokeMaterial # 0
                   THEN MaterialRender(surfaces[surface].strokeMaterial, lights,
                                       shader, rm.transformed)
                   ELSE <<>>]

\* The rounding of a kept record's projected points, in place.
Quantize(rm) ==
    IF fractionalPoints # TRUE
    THEN [rm EXCEPT !.projected.points = [i \in 1..Len(@) |-> round(@[i])]]
    ELSE rm

\* One pass of the loop over shape.surfaces in the shape visitor.  The visit
\* is noted with what the loop saw: the record returned, its frustum flag,
\* projected normal and transformed geometry, whether it was kept, whether
\* the record is one of an earlier frame (hit) and whether it then carried a
\* fill.
VisitSurface(st, surface, lights, tr, projection, vp) ==
    Only({
        LET rm == r.heap[r.rm]
            keep == Visible(cullBackfaces, surfaces[surface].cullBackfaces,
                            rm.projected.normal, rm.inFrustrum)
            visit == [surface |-> surface, rm |-> r.rm, lights |-> lights,
                      transformed |-> rm.transformed, inFrustrum |-> rm.inFrustrum,
                      normal |-> rm.projected.normal, pushed |-> keep,
                      hit |-> r.rm \in DOMAIN heap, hadFill |-> rm.fill # <<>>]
        IN  [r EXCEPT
                !.heap[r.rm] = IF keep THEN Quantize(Shade(@, surface, lights)) ELSE @,
                !.renderModels = IF keep THEN Append(@, r.rm) ELSE @,
                !.visits = Append(@, visit)]
      : r \in {_renderSurface(st, surface, tr, projection, vp)}})

RECURSIVE VisitSurfaces(_, _, _, _, _, _)
\* The shape visitor: for (const surface of shape.surfaces) ...
VisitSurfaces(st, surfs, lights, tr, projection, vp) ==
    IF surfs = <<>> THEN st
    ELSE VisitSurfaces(VisitSurface(st, Head(surfs), lights, tr, projection, vp),
                       Tail(surfs), lights, tr, projection, vp)

RECURSIVE Walk(_, _, _, _)
\* model.eachRenderable(..., shape visitor) over the walk's calls.
Walk(st, calls, projection, vp) ==
    IF calls = <<>> THEN st
    ELSE Walk(VisitSurfaces(st, ShapeSurfaces(Head(calls).shape),
                            Head(calls).lights, Head(calls).transform,
                            projection, vp),
              Tail(calls), projection, vp)

\* The comparator the wrong way round: nearest first.
CompareAscending(h, a, b) == h[a].projected.barycenter - h[b].projected.barycenter

\* The comparator of the depth sort: (a, b) => b.z - a.z.
Compare(h, a, b) == h[b].projected.barycenter - h[a].projected.barycenter

\* An insertion that puts x in front of the entries it ties with.
InsertBeforeTies(h, sorted0, x) ==
    Only({
        LET k == Cardinality({i \in 1..Len(sorted) : Compare(h, sorted[i], x) < 0})
        IN  SubSeq(sorted, 1, k) \o <<x>> \o SubSeq(sorted, k + 1, Len(sorted))
      : sorted \in {sorted0}})

\* Where a stable sort puts x into the sorted list: behind every entry that
\* does not compare greater than x.
Insert(h, sorted0, x) ==
    Only({
        LET k == Cardinality({i \in 1..Len(sorted) : Compare(h, sorted[i], x) <= 0})
        IN  SubSeq(sorted, 1, k) \o <<x>> \o SubSeq(sorted, k + 1, Len(sorted))
      : sorted \in {sorted0}})

RECURSIVE sort(_, _)
\* renderModels.sort(comparator): Array.prototype.sort, which is stable.
sort(h, list) ==
    IF list = <<>> THEN <<>>
    ELSE Insert(h, sort(h, SubSeq(list, 1, Len(list) - 1)), list[Len(list)])

Range(sq) == {sq[i] : i \in 1..Len(sq)}

\* The cached records, in surface order.
CachedList == LET RECURSIVE upto(_)
                  upto(n) == IF n = 0 THEN <<>>
                             ELSE upto(n - 1) \o (IF n \in Surfaces /\ _renderModelCache[n] # 0
                                                  THEN <<_renderModelCache[n]>> ELSE <<>>)
              IN  upto(Cardinality(Surfaces))

\* A frame that starts its list from the cache's records.
FrameStartFromCache ==
    [cache |-> _renderModelCache, heap |-> heap, nextId |-> nextId,
     rm |-> 0, renderModels |-> CachedList, visits |-> <<>>]

\* The state a frame starts from: the scene's cache and an empty list
\* (const renderModels = []).
FrameStart ==
    [cache |-> _renderModelCache, heap |-> heap, nextId |-> nextId,
     rm |-> 0, renderModels |-> <<>>, visits |-> <<>>]

\* Scene.render() from the current state: the cache, heap and nextId it
\* leaves, the list it returns and the visits it made.
render ==
    Only({
        [cache |-> st.cache, heap |-> st.heap, nextId |-> st.nextId,
         out |-> sort(st.heap, st.renderModels), visits |-> st.visits]
      : st \in {Walk(FrameStart, eachRenderable(model),
                     Projection(camera, viewport), viewport.postscale)}})

\* The objects still referenced: by the cache or by a returned list.
Live(cch, list) == {cch[s] : s \in Surfaces} \cup Range(list)

Restrict(h, ids) == [r \in DOMAIN h \cap ids |-> h[r]]

\* A flush that leaves the mapping as it is.
FlushKeeping == _renderModelCache

\* Scene.flushCache(): this._renderModelCache = {}
flushCache == [s \in Surfaces |-> 0]

\* =============================================================== Events
\* The typed publish/subscribe utility (events.ts).  An EventEmitter is an
\* object named by a positive integer; 0 is null/undefined.  A listener
\* (callback) is a function object named by a positive integer; 0 stands for
\* an omitted callback argument.  The function emitter() returns is named
\* by the EventEmitter whose emit it is; 0 names EventEmitter.noopEmitter.
\* A new EventEmitter gets the least name no object still referenced has.

\* The most calls the host makes to an Events object in one behaviour.
MaxCalls == 5

EventNames == {"a", "b"}
Callbacks == {1, 2, 3}
Args == {7}

VARIABLES
    emitters,     \* Events.emitters: event name -> EventEmitter (0: no entry)
    callbacks,    \* EventEmitter -> its callbacks array
    held,         \* the function the host got from emitter() last and kept:
                  \* the event it asked for and the function (<<>>: none yet)
    cleared,      \* clear() has been called
    calls,        \* the host's calls so far
    elast         \* the last Events operation: what was called, what it
                  \* returned and the listener calls it made

eventVars == <<emitters, callbacks, held, cleared, calls, elast>>

\* The log entry of an operation: its name and arguments, the function it
\* returned or was called through, the listeners of the event when it
\* started, and the listener calls it made.
Op(op, eventName, callback, fn, atStart) ==
    [op |-> op, event |-> eventName, callback |-> callback, fn |-> fn,
     arg |-> 0, atStart |-> atStart, called |-> <<>>]

\* this.callbacks.indexOf(callback): the first index, 0 when there is none
\* (indexOf's -1).
indexOf(list, callback) ==
    IF \E i \in 1..Len(list) : list[i] = callback
    THEN CHOOSE i \in 1..Len(list) :
            list[i] = callback /\ \A j \in 1..(i - 1) : list[j] # callback
    ELSE 0

\* this.callbacks.splice(i, 1)
splice(list, i) == SubSeq(list, 1, i - 1) \o SubSeq(list, i + 1, Len(list))

\* EventEmitter.remove(callback): the callbacks array afterwards.  An omitted
\* callback (callback != null fails) removes nothing.
remove(list, callback) ==
    IF callback # 0
    THEN IF indexOf(list, callback) > 0 THEN splice(list, indexOf(list, callback))
         ELSE list
    ELSE list

\* An add that pushes without removing first.
AddPushOnly(list, callback) == Append(list, callback)

\* EventEmitter.add(callback): remove, then push.
add(list, callback) == Append(remove(list, callback), callback)

\* The EventEmitter objects still referenced: by the map or by the function
\* the host keeps.
LiveEmitters(map, kept) ==
    ({map[e] : e \in EventNames} \cup {kept[i].emit : i \in 1..Len(kept)}) \ {0}

\* this.emitters[eventName] = new EventEmitter(), on the Events state st.
NewEmitter(st, eventName) ==
    LET live == LiveEmitters(st.emitters, st.held)
        new == CHOOSE n \in 1..(Cardinality(live) + 1) :
                  n \notin live /\ \A k \in 1..(n - 1) : k \in live
    IN  [st EXCEPT !.emitters[eventName] = new,
                   !.callbacks = (new :> <<>>) @@ Restrict(@, live)]

\* The lookup of on() and emitter(): the entry is created when it is null.
Ensure(st, eventName) ==
    IF st.emitters[eventName] = 0 THEN NewEmitter(st, eventName) ELSE st

\* Events.on(eventName, callback)
on(st0, eventName, callback) ==
    Only({
        [st EXCEPT !.callbacks[st.emitters[eventName]] = add(@, callback)]
      : st \in {Ensure(st0, eventName)}})

\* Events.off(eventName, callback?): the entry stays, whatever remove()
\* returned.
off(st, eventName, callback) ==
    IF st.emitters[eventName] # 0
    THEN [st EXCEPT !.callbacks[st.emitters[eventName]] = remove(@, callback)]
    ELSE st

\* Events.clear(): this.emitters = {}
clear(st) == [st EXCEPT !.emitters = [e \in EventNames |-> 0]]

\* Events.emitter(eventName): the Events state afterwards, with the function
\* returned in fn (emitter ? emitter.emit : EventEmitter.noopEmitter).
emitter(st0, eventName) ==
    Only({
        [st EXCEPT !.fn = IF st.emitters[eventName] # 0
                          THEN st.emitters[eventName] ELSE 0]
      : st \in {Ensure(st0, eventName)}})

\* What a listener does when it is called: listener 1 only takes the call,
\* listener 2 takes itself off event "a", listener 3 puts listener 1 on
\* event "a".
Invoke(st, callback) ==
    CASE callback = 2 -> off(st, "a", 2)
      [] callback = 3 -> on(st, "a", 1)
      [] OTHER        -> st

RECURSIVE emitFrom(_, _, _, _)
\* The loop of EventEmitter.emit from index i on: the array iterator reads
\* this.callbacks anew at every step.
emitFrom(st0, em, i, arg) ==
    Only({
        IF i > Len(st.callbacks[em]) THEN st
        ELSE emitFrom(Invoke([st EXCEPT
                                 !.called = Append(@, [callback |-> st.callbacks[em][i],
                                                       arg |-> arg])],
                             st.callbacks[em][i]),
                      em, i + 1, arg)
      : st \in {st0}})

\* Invoking the function fn with arg: emitter.emit(arg), or the no-op.
emit(st, fn, arg) == IF fn = 0 THEN st ELSE emitFrom(st, fn, 1, arg)

\* The Events state the operations work on.
EventsNow ==
    [emitters |-> emitters, callbacks |-> callbacks, held |-> held,
     fn |-> 0, called |-> <<>>]

\* new Events()
EventsInit ==
    /\ emitters = [e \in EventNames |-> 0]
    /\ callbacks = <<>>
    /\ held = <<>>
    /\ cleared = FALSE
    /\ calls = 0
    /\ elast = [op |-> "new"]

\* ================================================================ Model
\* The scene-graph node the model tests exercise: a Model with its children
\* (shapes and sub-models) and its lights.  A child is named by its kind and
\* identity; the sub-models append() makes get identities in increasing
\* order.

\* The most sub-models append() makes in one behaviour.
MaxAppended == 2
\* The most entries of model.children and of model.lights.
MaxListed == 3

VARIABLES
    root,       \* the Model under test: children and lights, in order
    nextModel,  \* the identity the next appended sub-model gets
    tlast       \* the last Model operation and the one before it: what was
                \* called with what, and the Model as it was before the call

treeVars == <<root, nextModel, tlast>>

ShapeChild(shape) == [kind |-> "shape", id |-> shape]
ModelChild(n) == [kind |-> "model", id |-> n]
LightChild(light) == [kind |-> "light", id |-> light]

\* What the host adds and removes.
Givens == {ShapeChild(s) : s \in Shapes} \cup {LightChild(l) : l \in Lights}

\* model.add(child): a shape or a model goes to the end of children, a light
\* to the end of lights.
ModelAdd(m, child) ==
    IF child.kind \in {"shape", "model"}
    THEN [m EXCEPT !.children = Append(@, child)]
    ELSE [m EXCEPT !.lights = Append(@, child)]

\* The array without its first occurrence of child.
WithoutFirst(list, child) ==
    IF indexOf(list, child) > 0 THEN splice(list, indexOf(list, child)) ELSE list

\* The array without any occurrence of child.
WithoutAll(list, child) == SelectSeq(list, LAMBDA c : c # child)

\* A remove that leaves the Model as it is.
ModelRemoveNothing(m, child, every) == m

\* model.remove(child): the child is taken out of children and of lights;
\* either its first occurrence or every occurrence goes.
ModelRemove(m, child, every) ==
    IF every
    THEN [children |-> WithoutAll(m.children, child),
          lights |-> WithoutAll(m.lights, child)]
    ELSE [children |-> WithoutFirst(m.children, child),
          lights |-> WithoutFirst(m.lights, child)]

\* The log entry of a Model operation.
Call(op, child, before) == [op |-> op, child |-> child, before |-> before]

\* new Model()
ModelInit ==
    /\ root = [children |-> <<>>, lights |-> <<>>]
    /\ nextModel = 1
    /\ tlast = [now |-> [op |-> "new"], prev |-> [op |-> "new"]]

\* Every variable of the module.
vars == <<sceneVars, eventVars, treeVars>>

\* ------------------------------------------------------------- actions
Init ==
    /\ model = [children |-> <<>>, lights |-> <<>>]
    /\ surfaces = [s \in Surfaces |->
                     [cullBackfaces |-> TRUE, fillMaterial |-> 1, strokeMaterial |-> 0]]
    /\ camera = [m |-> Identity, projection |-> Identity]
    /\ viewport = [prescale |-> Identity, postscale |-> Identity]
    /\ shader = "phong"
    /\ cullBackfaces = TRUE
    /\ fractionalPoints = FALSE
    /\ cache = TRUE
    /\ _renderModelCache = [s \in Surfaces |-> 0]
    /\ heap = <<>>
    /\ nextId = 1
    /\ out = <<>>
    /\ visits = <<>>
    /\ last = "new"
    /\ retired = {}
    /\ ops = 0
    /\ EventsInit
    /\ ModelInit

\* scene.render()
Render ==
    \E r \in {render} :
        /\ r.nextId <= MaxAlloc + 1
        /\ _renderModelCache' = r.cache
        /\ heap' = Restrict(r.heap, Live(r.cache, r.out))
        /\ nextId' = r.nextId
        /\ out' = r.out
        /\ visits' = r.visits
        /\ last' = IF last \in {"render", "rerender"} THEN "rerender" ELSE "render"
        /\ UNCHANGED <<config, retired, ops, eventVars, treeVars>>

\* scene.flushCache()
FlushCache ==
    /\ _renderModelCache' = flushCache
    /\ heap' = Restrict(heap, Live(_renderModelCache', out))
    /\ retired' = retired \cup ({_renderModelCache[s] : s \in Surfaces}
                                 \ ({0} \cup {_renderModelCache'[s] : s \in Surfaces}))
    /\ last' = "flush"
    /\ UNCHANGED <<config, nextId, out, visits, ops, eventVars, treeVars>>

\* What every host mutation of the scene does besides its own change: the
\* list of the frame before is let go.
Host ==
    /\ ops < MaxOps
    /\ ops' = ops + 1
    /\ last' = "host"
    /\ out' = <<>>
    /\ visits' = <<>>
    /\ heap' = Restrict(heap, Live(_renderModelCache, <<>>))
    /\ UNCHANGED <<_renderModelCache, nextId, retired, eventVars, treeVars>>

\* A shape is put into the scene graph under a transform.
AddShape ==
    /\ Len(model.children) < MaxChildren
    /\ \E shape \in Shapes, tr \in Transforms :
          model' = [model EXCEPT
                      !.children = Append(@, [shape |-> shape, transform |-> tr])]
    /\ Host
    /\ UNCHANGED <<surfaces, camera, viewport, shader, cullBackfaces,
                   fractionalPoints, cache>>

\* A child is taken out of the scene graph.
RemoveChild ==
    /\ \E i \in 1..Len(model.children) :
          model' = [model EXCEPT
                      !.children = SubSeq(@, 1, i - 1) \o SubSeq(@, i + 1, Len(@))]
    /\ Host
    /\ UNCHANGED <<surfaces, camera, viewport, shader, cullBackfaces,
                   fractionalPoints, cache>>

\* A light is added to or removed from the model.
SetLights ==
    /\ \E l \in Lights :
          model' = [model EXCEPT !.lights = IF @ = <<>> THEN <<l>> ELSE <<>>]
    /\ Host
    /\ UNCHANGED <<surfaces, camera, viewport, shader, cullBackfaces,
                   fractionalPoints, cache>>

\* The surfaces of the shapes in the scene graph.
InGraph == UNION {Range(ShapeSurfaces(model.children[i].shape)) :
                    i \in 1..Len(model.children)}

\* surface.cullBackfaces, surface.fillMaterial or surface.strokeMaterial of a
\* surface in the scene is set.
SetSurface ==
    /\ \E s \in InGraph :
          \/ surfaces' = [surfaces EXCEPT ![s].cullBackfaces = ~@]
          \/ \E m \in Materials :
                surfaces' = [surfaces EXCEPT ![s].fillMaterial = IF @ = 0 THEN m ELSE 0]
          \/ \E m \in Materials :
                surfaces' = [surfaces EXCEPT ![s].strokeMaterial = IF @ = 0 THEN m ELSE 0]
    /\ Host
    /\ UNCHANGED <<model, camera, viewport, shader, cullBackfaces,
                   fractionalPoints, cache>>

\* scene.shader = ...
SetShader ==
    /\ \E sh \in Shaders \ {shader} : shader' = sh
    /\ Host
    /\ UNCHANGED <<model, surfaces, camera, viewport, cullBackfaces,
                   fractionalPoints, cache>>

\* scene.cullBackfaces = !scene.cullBackfaces
SetCullBackfaces ==
    /\ cullBackfaces' = ~cullBackfaces
    /\ Host
    /\ UNCHANGED <<model, surfaces, camera, viewport, shader,
                   fractionalPoints, cache>>

\* scene.fractionalPoints = !scene.fractionalPoints
SetFractionalPoints ==
    /\ fractionalPoints' = ~fractionalPoints
    /\ Host
    /\ UNCHANGED <<model, surfaces, camera, viewport, shader,
                   cullBackfaces, cache>>

\* scene.cache = !scene.cache
SetCache ==
    /\ cache' = ~cache
    /\ Host
    /\ UNCHANGED <<model, surfaces, camera, viewport, shader,
                   cullBackfaces, fractionalPoints>>

\* The camera is moved.
MoveCamera ==
    /\ \E m \in CameraMoves \ {camera.m} : camera' = [camera EXCEPT !.m = m]
    /\ Host
    /\ UNCHANGED <<model, surfaces, viewport, shader, cullBackfaces,
                   fractionalPoints, cache>>

Next ==
    \/ Render
    \/ FlushCache
    \/ AddShape
    \/ RemoveChild
    \/ SetLights
    \/ SetSurface
    \/ SetShader
    \/ SetCullBackfaces
    \/ SetFractionalPoints
    \/ SetCache
    \/ MoveCamera

Spec == Init /\ [][Next]_vars

\* ------------------------------------------- geometry and caching only
\* The scene under the operations that bear on the records' geometry and on
\* the cache: frames, flushes, changes of the scene graph, of the camera and
\* of the flags.  Lights, materials and the shader stay as constructed.
GeometryNext ==
    \/ Render
    \/ FlushCache
    \/ AddShape
    \/ RemoveChild
    \/ SetCullBackfaces
    \/ SetFractionalPoints
    \/ SetCache
    \/ MoveCamera

GeometrySpec == Init /\ [][GeometryNext]_vars

\* ----------------------------------------- a scene with a set-up camera
\* The matrices the host constructs the camera and the viewport with: the
\* identity, a scaling by two and a shift by half a unit.  A shift and a
\* scaling do not commute.
Double == [s |-> 2, tx |-> 0, tz |-> 0]
Shift == [s |-> 1, tx |-> 1, tz |-> 0]
Lenses == {Identity, Double, Shift}

\* new Scene({camera, viewport}): the defaults otherwise.
FrameInit ==
    /\ model = [children |-> <<>>, lights |-> <<>>]
    /\ surfaces = [s \in Surfaces |->
                     [cullBackfaces |-> TRUE, fillMaterial |-> 1, strokeMaterial |-> 0]]
    /\ camera \in [m : CameraMoves, projection : Lenses]
    /\ viewport \in [prescale : Lenses, postscale : Lenses]
    /\ shader = "phong"
    /\ cullBackfaces = TRUE
    /\ fractionalPoints = FALSE
    /\ cache = TRUE
    /\ _renderModelCache = [s \in Surfaces |-> 0]
    /\ heap = <<>>
    /\ nextId = 1
    /\ out = <<>>
    /\ visits = <<>>
    /\ last = "new"
    /\ retired = {}
    /\ ops = 0
    /\ EventsInit
    /\ ModelInit

FrameNext ==
    \/ Render
    \/ AddShape
    \/ MoveCamera

FrameSpec == FrameInit /\ [][FrameNext]_vars

\* ------------------------------------------------------ Events actions
\* The listeners registered for eventName: the callbacks of its emitter.
Registered(eventName) ==
    IF emitters[eventName] = 0 THEN <<>> ELSE callbacks[emitters[eventName]]

\* The Events state r an operation leaves is taken over, with the function
\* the host keeps and the log entry of the operation.
Settle(r, kept, entry) ==
    /\ calls < MaxCalls
    /\ calls' = calls + 1
    /\ emitters' = r.emitters
    /\ callbacks' = Restrict(r.callbacks, LiveEmitters(r.emitters, kept))
    /\ held' = kept
    /\ elast' = entry
    /\ UNCHANGED <<sceneVars, treeVars>>

\* events.on(eventName, callback)
On ==
    \E eventName \in EventNames, callback \in Callbacks :
        \E r \in {on(EventsNow, eventName, callback)} :
            /\ Settle(r, held, Op("on", eventName, callback, 0, Registered(eventName)))
            /\ UNCHANGED cleared

\* events.off(eventName, callback) and events.off(eventName)
Off ==
    \E eventName \in EventNames, callback \in Callbacks \cup {0} :
        \E r \in {off(EventsNow, eventName, callback)} :
            /\ Settle(r, held, Op("off", eventName, callback, 0, Registered(eventName)))
            /\ UNCHANGED cleared

\* events.clear()
Clear ==
    \E r \in {clear(EventsNow)} :
        /\ Settle(r, held, Op("clear", "", 0, 0, <<>>))
        /\ cleared' = TRUE

\* f = events.emitter(eventName): the host keeps the function.
Emitter ==
    \E eventName \in EventNames :
        \E r \in {emitter(EventsNow, eventName)} :
            /\ Settle(r, <<[event |-> eventName, emit |-> r.fn]>>,
                      Op("emitter", eventName, 0, r.fn, Registered(eventName)))
            /\ UNCHANGED cleared

\* f(arg), for the function f the host got from emitter(f.event).
Emit ==
    \E i \in 1..Len(held), arg \in Args :
        \E r \in {emit(EventsNow, held[i].emit, arg)} :
            /\ Settle(r, held,
                      [op |-> "emit", event |-> held[i].event, callback |-> 0,
                       fn |-> held[i].emit, arg |-> arg,
                       atStart |-> IF held[i].emit = 0 THEN <<>>
                                   ELSE callbacks[held[i].emit],
                       called |-> r.called])
            /\ UNCHANGED cleared

EventsNext ==
    \/ On
    \/ Off
    \/ Clear
    \/ Emitter
    \/ Emit

EventsSpec == Init /\ [][EventsNext]_vars

\* ------------------------------------------------------- Model actions
\* The Model m an operation leaves is taken over, with the operation's log
\* entry.
Grown(m, entry) ==
    /\ Len(m.children) <= MaxListed
    /\ Len(m.lights) <= MaxListed
    /\ root' = m
    /\ tlast' = [now |-> entry, prev |-> tlast.now]
    /\ UNCHANGED <<sceneVars, eventVars>>

\* model.add(shape), model.add(light)
Add ==
    \E child \in Givens :
        /\ Grown(ModelAdd(root, child), Call("add", child, root))
        /\ UNCHANGED nextModel

\* child = model.append(): a new Model is made, added and returned.
AppendModel ==
    /\ nextModel <= MaxAppended
    /\ Grown(ModelAdd(root, ModelChild(nextModel)),
             Call("append", ModelChild(nextModel), root))
    /\ nextModel' = nextModel + 1

\* model.remove(child), for a shape, a light or a sub-model append() returned.
Remove ==
    \E child \in Givens \cup {ModelChild(n) : n \in 1..(nextModel - 1)},
       every \in BOOLEAN :
        /\ Grown(ModelRemove(root, child, every), Call("remove", child, root))
        /\ UNCHANGED nextModel

ModelNext ==
    \/ Add
    \/ AppendModel
    \/ Remove

ModelSpec == Init /\ [][ModelNext]_vars

\* ------------------------------------------------------------- claims
\* The last operation was a render(): out and visits are those of a frame of
\* the scene as it is now.
Rendered == last \in {"render", "rerender"}

Count(list, r) == Cardinality({i \in 1..Len(list) : list[i] = r})

\* The depth key of a record as it is now.
Depth(r) == heap[r].projected.barycenter

\* The records the walk appended, in the order of the visits.
Pushed ==
    LET kept == SelectSeq(visits, LAMBDA v : v.pushed)
    IN  [i \in 1..Len(kept) |-> kept[i].rm]

\* What the culling rule says of visit v, from the flags and the record's
\* frustum flag and projected normal at the visit.
ShouldKeep(v) ==
    v.inFrustrum /\ (~cullBackfaces \/ ~surfaces[v.surface].cullBackfaces \/ v.normal < 0)

\* C1: a surface visit's record is appended to the output iff its frustum
\* flag is true and (the scene's cull flag is off, or the surface's cull flag
\* is off, or the projected normal's z is negative): every record occurs in
\* the returned list once per visit that satisfies the rule.
C1_KeptIffVisible ==
    Rendered =>
        \A r \in 1..(nextId - 1) :
            Count(out, r) =
                Cardinality({i \in 1..Len(visits) : visits[i].rm = r /\ ShouldKeep(visits[i])})

\* C1's case: with the scene's flag on, a backfacing in-frustum surface whose
\* own flag is off is in the output while another backfacing one is left out.
C1_Witness ==
    /\ Rendered
    /\ cullBackfaces
    /\ \E i, j \in 1..Len(visits) :
          /\ visits[i].inFrustrum /\ visits[i].normal >= 0
          /\ ~surfaces[visits[i].surface].cullBackfaces
          /\ visits[i].rm \in Range(out)
          /\ visits[j].inFrustrum /\ visits[j].normal >= 0
          /\ surfaces[visits[j].surface].cullBackfaces
          /\ visits[j].rm \notin Range(out)

\* C2: every record of the list render() returned has its frustum flag true
\* when render() returns.
C2_OutputInFrustrum ==
    Rendered => \A i \in 1..Len(out) : heap[out[i]].inFrustrum

\* C3: the returned list is in descending order of projected barycenter
\* depth, on the records as they are when render() returns.
C3_SortedByDepth ==
    Rendered => \A i \in 1..(Len(out) - 1) : Depth(out[i]) >= Depth(out[i + 1])

\* C3's case: three or more records were kept and the walk met a nearer one
\* before a farther one, so the sort had to move them.
C3_Witness ==
    /\ Rendered
    /\ Len(out) >= 3
    /\ \E i, j \in 1..Len(Pushed) : i < j /\ Depth(Pushed[i]) < Depth(Pushed[j])

\* The unrounded projected points of a record, from its surface and matrices.
Unrounded(rec) ==
    Geometry(rec.surface, rec.transform, rec.projection, rec.viewport).projected.points

IsWhole(p) == p.x % 2 = 0 /\ p.z % 2 = 0

\* C4: with fractionalPoints false every coordinate of every projected point
\* of the returned records is a whole number; with fractionalPoints true the
\* points are exactly the projected values.
C4_RoundedOrExact ==
    Rendered =>
        \A i \in 1..Len(out) :
            LET rec == heap[out[i]]
            IN  IF fractionalPoints
                THEN rec.projected.points = Unrounded(rec)
                ELSE \A k \in 1..Len(rec.projected.points) : IsWhole(rec.projected.points[k])

\* C5: with caching on, a render() directly after a render() of the same
\* scene returns the same records in the same cache slots, and their
\* projected geometry is what it was after the first call.
C5_StableAcrossFrames ==
    [][(Rendered /\ last' = "rerender" /\ cache) =>
          /\ out' = out
          /\ _renderModelCache' = _renderModelCache
          /\ \A i \in 1..Len(out) :
                heap'[out[i]].projected = heap[out[i]].projected]_vars

\* C5's case: a second frame of an unchanged scene with caching on, returning
\* two records or more, one of them with rounded points.
C5_Witness ==
    /\ last = "rerender"
    /\ cache
    /\ Len(out) >= 2
    /\ \E i \in 1..Len(out) : heap[out[i]].projected.points # Unrounded(heap[out[i]])

\* C6: after a render() no returned record is of a surface outside the scene
\* graph, with or without a flush before it.
C6_OnlyWalkedSurfaces ==
    Rendered => \A i \in 1..Len(out) : heap[out[i]].surface \in InGraph

\* C6's case: a frame that returned records while the cache still held the
\* record of a surface no longer in the graph.
C6_Witness ==
    /\ Rendered
    /\ out # <<>>
    /\ \E s \in Surfaces \ InGraph : _renderModelCache[s] # 0

\* C7: for every returned record fill is present iff the surface has a fill
\* material, stroke iff it has a stroke material, and a present result is the
\* one computed in this frame from the model's lights, the current shader and
\* the geometry of a kept visit of the record.
C7_ShadingFromMaterials ==
    Rendered =>
        \A i \in 1..Len(out) :
            LET rec == heap[out[i]]
                surf == surfaces[rec.surface]
                ThisFrame(result, material) ==
                    \E k \in 1..Len(visits) :
                        /\ visits[k].rm = out[i]
                        /\ visits[k].pushed
                        /\ result = MaterialRender(material, LightRenderModels(model.lights),
                                                   shader, visits[k].transformed)
            IN  /\ rec.fill # <<>> <=> surf.fillMaterial # 0
                /\ rec.stroke # <<>> <=> surf.strokeMaterial # 0
                /\ rec.fill # <<>> => ThisFrame(rec.fill, surf.fillMaterial)
                /\ rec.stroke # <<>> => ThisFrame(rec.stroke, surf.strokeMaterial)

\* C7's case: a cache hit on a record that carried a fill from an earlier
\* frame, kept in this frame, of a surface that now has a stroke material and
\* no fill material.
C7_Witness ==
    /\ Rendered
    /\ \E k \in 1..Len(visits) :
          /\ visits[k].hit /\ visits[k].hadFill /\ visits[k].pushed
          /\ surfaces[visits[k].surface].fillMaterial = 0
          /\ surfaces[visits[k].surface].strokeMaterial # 0
          /\ heap[visits[k].rm].fill = <<>>
          /\ heap[visits[k].rm].stroke # <<>>

\* C8: no operation but flushCache() removes or replaces a cache entry;
\* flushCache() removes them all; an entry that appears is a record never
\* seen before, so never one a flush dropped; and after a render() with
\* caching on every surface of the graph has an entry.
C8_NoEviction ==
    [][/\ last' # "flush" =>
             \A s \in Surfaces :
                 _renderModelCache[s] # 0 => _renderModelCache'[s] = _renderModelCache[s]
       /\ last' = "flush" => \A s \in Surfaces : _renderModelCache'[s] = 0
       /\ \A s \in Surfaces :
             _renderModelCache'[s] \notin {0, _renderModelCache[s]} =>
                 _renderModelCache'[s] >= nextId
       /\ \A s \in Surfaces : _renderModelCache'[s] \notin retired'
       /\ (last' \in {"render", "rerender"} /\ cache') =>
             \A s \in InGraph' : _renderModelCache'[s] # 0]_vars

\* C8's case: a frame with caching on after a flush that dropped records:
\* every surface of the graph has a record again.
C8_Witness ==
    /\ Rendered
    /\ cache
    /\ retired # {}
    /\ InGraph # {}
    /\ \A s \in InGraph : _renderModelCache[s] # 0

\* C9: with scene.cache false every visit of a render() gets a record that no
\* visit and no render() got before and that is not in the cache, and the
\* cache mapping and its records are left as they were.
C9_UncachedAlwaysNew ==
    [][(last' \in {"render", "rerender"} /\ ~cache') =>
          /\ \A i \in 1..Len(visits') : visits'[i].rm >= nextId
          /\ \A i, j \in 1..Len(visits') : i # j => visits'[i].rm # visits'[j].rm
          /\ \A i \in 1..Len(visits'), s \in Surfaces :
                visits'[i].rm # _renderModelCache[s]
          /\ _renderModelCache' = _renderModelCache
          /\ \A s \in Surfaces :
                _renderModelCache[s] # 0 =>
                    heap'[_renderModelCache[s]] = heap[_renderModelCache[s]]
          /\ \A r \in DOMAIN heap : r < nextId]_vars

\* C9's case: a second uncached frame in a row, of two visits or more, while
\* the cache holds a record from an earlier cached frame.
C9_Witness ==
    /\ last = "rerender"
    /\ ~cache
    /\ Len(visits) >= 2
    /\ out # <<>>
    /\ \E s \in Surfaces : _renderModelCache[s] # 0

CallsOf(s) ==
    SelectSeq(eachRenderable(model), LAMBDA c : s \in Range(ShapeSurfaces(c.shape)))

\* The visits of surface s in the last frame, in walk order.
VisitsOf(s) == SelectSeq(visits, LAMBDA v : v.surface = s)

\* What a record of surface s holds when it is made or updated for a call
\* of the walk, under the scene's camera and viewport.
GeometryAt(s, call) ==
    Geometry(s, call.transform, Projection(camera, viewport), viewport.postscale)

\* C17: after a render() with caching on, every visit of a surface got the
\* one record the cache holds for the surface, no two surfaces share a
\* record, every visit saw the geometry of its own transform, and the record
\* holds the transform and the geometry of the surface's last visit.
C17_OneRecordPerSurface ==
    (Rendered /\ cache) =>
        \A s \in Surfaces :
            LET vs == VisitsOf(s)
                cs == CallsOf(s)
                n == Len(vs)
                rec == heap[_renderModelCache[s]]
                g == GeometryAt(s, cs[n])
            IN  n > 0 =>
                    /\ n = Len(cs)
                    /\ _renderModelCache[s] # 0
                    /\ \A t \in Surfaces \ {s} : _renderModelCache[t] # _renderModelCache[s]
                    /\ \A i \in 1..n :
                          /\ vs[i].rm = _renderModelCache[s]
                          /\ \E gi \in {GeometryAt(s, cs[i])} :
                                /\ vs[i].transformed = gi.transformed
                                /\ vs[i].inFrustrum = gi.inFrustrum
                    /\ rec.surface = s
                    /\ rec.transform = cs[n].transform
                    /\ rec.transformed = g.transformed
                    /\ rec.inFrustrum = g.inFrustrum
                    /\ rec.projected.normal = g.projected.normal
                    /\ rec.projected.barycenter = g.projected.barycenter

\* C17's case: a surface was visited twice under different transforms, the
\* first visit was kept, and the record in the returned list holds the
\* geometry of the second visit.
C17_Witness ==
    /\ Rendered
    /\ cache
    /\ \E s \in Surfaces :
          /\ Len(VisitsOf(s)) = 2
          /\ VisitsOf(s)[1].pushed
          /\ VisitsOf(s)[1].transformed # VisitsOf(s)[2].transformed
          /\ VisitsOf(s)[1].rm \in Range(out)
          /\ heap[VisitsOf(s)[1].rm].transformed = VisitsOf(s)[2].transformed

\* C18: after a render() with caching on and fractionalPoints true, the
\* projected points of every record visited are the unrounded projection of
\* its surface under the transform of its last visit: what a new record
\* would hold, whatever an earlier frame left in the record.
C18_RoundingNotKept ==
    (Rendered /\ cache /\ fractionalPoints = TRUE) =>
        \A k \in 1..Len(visits) :
            \E cs \in {CallsOf(visits[k].surface)} :
                heap[visits[k].rm].projected.points
                    = NewRenderModel(visits[k].surface, cs[Len(cs)].transform,
                                     Projection(camera, viewport),
                                     viewport.postscale).projected.points

\* C18's case: the host has added one shape and, after a frame, set
\* fractionalPoints to true; the frame after that hit a record the earlier
\* frame had kept, and so rounded, and the record has a fractional
\* coordinate again.
C18_Witness ==
    /\ last = "render"
    /\ cache
    /\ fractionalPoints = TRUE
    /\ ops = 2
    /\ Len(model.children) = 1
    /\ \E k \in 1..Len(visits) :
          /\ visits[k].hit /\ visits[k].hadFill /\ visits[k].pushed
          /\ \E i \in 1..Len(heap[visits[k].rm].projected.points) :
                ~IsWhole(heap[visits[k].rm].projected.points[i])

\* The points the composition is probed with: an affine map is fixed by its
\* values on them.
Probes == {[x |-> 0, z |-> 0], [x |-> 1, z |-> 2]}

\* C19: a render() leaves camera, viewport, shader and the three flags as
\* they were, and every record it made or updated holds viewport.postscale
\* as its viewport matrix and, as its projection matrix, the map that applies
\* camera.m first, then viewport.prescale, then camera.projection.
C19_ProjectionComposed ==
    [][last' \in {"render", "rerender"} =>
          /\ config' = config
          /\ \A k \in 1..Len(visits') :
                visits'[k].rm \in DOMAIN heap' =>
                    /\ heap'[visits'[k].rm].viewport = viewport.postscale
                    /\ \A p \in Probes :
                          transform(p, heap'[visits'[k].rm].projection)
                              = transform(transform(transform(p, camera.m),
                                                    viewport.prescale),
                                          camera.projection)]_vars

\* C19's case: a frame that returned a record, under a moved camera, a
\* scaling prescale, a shifting projection and a postscale other than the
\* identity.
C19_Witness ==
    /\ Rendered
    /\ out # <<>>
    /\ camera.m # Identity
    /\ viewport.prescale = Double
    /\ camera.projection = Shift
    /\ viewport.postscale # Identity

\* ------------------------------------------------------ claims: Events
\* The callbacks an emit called, in the order of the calls.
CalledCallbacks(entry) == [i \in 1..Len(entry.called) |-> entry.called[i].callback]

\* The listeners registered for eventName after the step.
RegisteredAfter(eventName) ==
    IF emitters'[eventName] = 0 THEN <<>> ELSE callbacks'[emitters'[eventName]]

\* The list without callback.
Without(list, callback) == SelectSeq(list, LAMBDA c : c # callback)

\* C11: off(eventName) without a callback leaves eventName without
\* listeners; off(eventName, cb) takes cb out and leaves the other listeners
\* of eventName in their order; the listeners of every other event stay as
\* they are.
C11_OffRemoves ==
    [][elast'.op = "off" =>
          /\ elast'.callback = 0 => RegisteredAfter(elast'.event) = <<>>
          /\ elast'.callback # 0 =>
                RegisteredAfter(elast'.event) = Without(Registered(elast'.event), elast'.callback)
          /\ \A o \in EventNames \ {elast'.event} : RegisteredAfter(o) = Registered(o)]_vars

\* C12: no callbacks array holds a callback twice, and after on(eventName, cb)
\* the listeners of eventName are those before it without cb, in their order,
\* followed by cb.
C12_NoDuplicates ==
    /\ \A em \in DOMAIN callbacks :
          \A i, j \in 1..Len(callbacks[em]) :
              i # j => callbacks[em][i] # callbacks[em][j]
    /\ elast.op = "on" =>
          Registered(elast.event) = Append(Without(elast.atStart, elast.callback),
                                           elast.callback)

\* C12's case: on() for a callback that was the first of three listeners: it
\* is the last of three now.
C12_Witness ==
    /\ elast.op = "on"
    /\ Len(elast.atStart) = 3
    /\ elast.atStart[1] = elast.callback
    /\ Len(Registered(elast.event)) = 3
    /\ Registered(elast.event)[3] = elast.callback

\* C13: an emit calls every listener that was in the list when it started
\* exactly once, in list order, with the emitted argument, and calls no
\* callback that is not a listener of the event (at the start or by the end).
C13_EmitCallsAll ==
    elast.op = "emit" =>
        /\ \A i \in 1..Len(elast.called) : elast.called[i].arg = elast.arg
        /\ SelectSeq(CalledCallbacks(elast), LAMBDA c : c \in Range(elast.atStart))
              = elast.atStart
        /\ \A i \in 1..Len(elast.called) :
              elast.called[i].callback \in
                  Range(elast.atStart)
                  \cup (IF elast.fn = 0 THEN {} ELSE Range(callbacks[elast.fn]))

\* C14: once clear() has been called, an emit through any function got from
\* emitter(eventName) calls only listeners that are registered for eventName
\* with the Events object, so none that was registered before the clear and
\* not since.
C14_ClearSilences ==
    [][(elast'.op = "emit" /\ cleared') =>
          \A i \in 1..Len(elast'.called) :
              elast'.called[i].callback \in
                  Range(Registered(elast'.event)) \cup Range(RegisteredAfter(elast'.event))]_vars

\* C15: emitter(eventName) for an event without listeners returns the no-op
\* function and leaves the emitters map and every listener list as they were.
C15_NoopWhenNoListeners ==
    [][(elast'.op = "emitter" /\ Registered(elast'.event) = <<>>) =>
          /\ elast'.fn = 0
          /\ emitters' = emitters
          /\ \A e \in EventNames : RegisteredAfter(e) = Registered(e)]_vars

\* C20: as long as clear() has not been called, a function got from
\* emitter(eventName) at any time before is the emit of the emitter of
\* eventName, and invoking it calls the listeners registered for eventName
\* at that time, each exactly once and in list order, and no callback that
\* is not registered for eventName (then or by the end).
C20_LongLived ==
    [][(elast'.op = "emit" /\ ~cleared') =>
          /\ elast'.fn # 0
          /\ elast'.fn = emitters[elast'.event]
          /\ SelectSeq(CalledCallbacks(elast'),
                       LAMBDA c : c \in Range(Registered(elast'.event)))
                = Registered(elast'.event)
          /\ \A i \in 1..Len(elast'.called) :
                elast'.called[i].callback \in
                    Range(Registered(elast'.event))
                    \cup Range(RegisteredAfter(elast'.event))]_vars

\* ------------------------------------------------------- claims: Model
\* The last operation was remove(child) and the one before it added that
\* child, by add() or append().
AddedThenRemoved ==
    /\ tlast.now.op = "remove"
    /\ tlast.prev.op \in {"add", "append"}
    /\ tlast.prev.child = tlast.now.child

\* list is old with one more element, child.
OneMore(list, old, child) ==
    /\ Len(list) = Len(old) + 1
    /\ \E i \in 1..Len(list) : list[i] = child /\ splice(list, i) = old

\* What add() and append() change: a shape or sub-model makes children one
\* longer and leaves lights, a light makes lights one longer and leaves
\* children.
ChangesOneList ==
    tlast.now.op \in {"add", "append"} =>
        IF tlast.now.child.kind = "light"
        THEN /\ root.children = tlast.now.before.children
             /\ OneMore(root.lights, tlast.now.before.lights, tlast.now.child)
        ELSE /\ root.lights = tlast.now.before.lights
             /\ OneMore(root.children, tlast.now.before.children, tlast.now.child)

\* C16 as stated: from any Model, adding a child (append(), add(shape),
\* add(light)) and then removing it brings children and lights back to what
\* they were, and an add changes one list by one element.
C16_AddRemoveRestores ==
    /\ AddedThenRemoved => root = tlast.prev.before
    /\ ChangesOneList

\* The child was in the Model already, among its children or its lights.
Present(m, child) == child \in Range(m.children) \cup Range(m.lights)

\* C16, amended: adding a child that is not in the Model yet and then
\* removing it brings children and lights back to what they were (append()
\* always adds a new child), and an add changes one list by one element.
C16_AddRemoveRestoresNew ==
    /\ (AddedThenRemoved /\ ~Present(tlast.prev.before, tlast.now.child)) =>
          root = tlast.prev.before
    /\ ChangesOneList

\* C16's case: a shape that was not in a Model with children and lights was
\* added and removed again.
C16_Witness ==
    /\ AddedThenRemoved
    /\ tlast.prev.op = "add"
    /\ ~Present(tlast.prev.before, tlast.now.child)
    /\ tlast.prev.before.children # <<>>
    /\ tlast.prev.before.lights # <<>>
    /\ root = tlast.prev.before

====
